---- MODULE Spec2Model ----
(***************************************************************************)
(* Model of isort/wrap_modes.py: the eight wrap-mode strategies, the       *)
(* grid-packing primitive they share, and the registry lookups.            *)
(*                                                                         *)
(* A Python str is modelled as a sequence of one-character strings, a      *)
(* Python list of str as a sequence of such sequences.  A character        *)
(* outside printable ASCII is written by its code point, as in "U+0663".   *)
(* One call of a strategy is one action; the caller's import and comment   *)
(* lists are state, because the strategies receive them by reference.      *)
(***************************************************************************)
EXTENDS Integers, Sequences, FiniteSets, TLC

(***************************************************************************)
(* Bounds of the model.                                                    *)
(***************************************************************************)
MaxImports == 3
MaxComments == 2
MaxLineLength == 16
MaxOrdinal == 9

(***************************************************************************)
(* Python built-ins used by the module.                                    *)
(***************************************************************************)
\* s.startswith(p)
StartsWith(s, p) == Len(p) <= Len(s) /\ SubSeq(s, 1, Len(p)) = p

\* s[n:]
Drop(s, n) == SubSeq(s, n + 1, Len(s))

\* sep.join(parts)
RECURSIVE Join(_, _)
Join(parts, sep) ==
    IF parts = <<>> THEN <<>>
    ELSE IF Len(parts) = 1 THEN parts[1]
    ELSE parts[1] \o sep \o Join(Tail(parts), sep)

\* s.split(sep), sep non-empty: left-to-right, non-overlapping
RECURSIVE SplitFrom(_, _, _)
SplitFrom(s, sep, cur) ==
    IF s = <<>> THEN <<cur>>
    ELSE IF StartsWith(s, sep) THEN <<cur>> \o SplitFrom(Drop(s, Len(sep)), sep, <<>>)
    ELSE SplitFrom(Tail(s), sep, Append(cur, Head(s)))

Split(s, sep) == SplitFrom(s, sep, <<>>)

\* seq[-1]
Last(seq) == seq[Len(seq)]

\* len(text.split(line_separator)[-1])
LastLineLen(text, line_separator) == Len(Last(Split(text, line_separator)))

(***************************************************************************)
(* comments.add_to_line: the Comment Attacher.  Its code is not part of    *)
(* wrap_modes.py; it is modelled from its interface contract: the line     *)
(* unchanged when removed is set or no comment is pending, otherwise the   *)
(* line followed by comment_prefix, a space and the comments joined with   *)
(* "; ".                                                                   *)
(***************************************************************************)
add_to_line(comments, original_string, removed, comment_prefix) ==
    IF removed THEN original_string
    ELSE IF comments = <<>> THEN original_string
    ELSE original_string \o comment_prefix \o <<" ">> \o Join(comments, <<";", " ">>)

(***************************************************************************)
(* grid                                                                    *)
(***************************************************************************)
\* lines 63-69: word-wrap one import under white_space
RECURSIVE grid_wrap_parts(_, _, _)
grid_wrap_parts(lines, parts, I) ==
    IF parts = <<>> THEN lines
    ELSE LET part == Head(parts)
             new_line == Last(lines) \o <<" ">> \o part
         IN IF Len(new_line) + 1 > I.line_length
            THEN grid_wrap_parts(Append(lines, I.white_space \o part), Tail(parts), I)
            ELSE grid_wrap_parts([lines EXCEPT ![Len(lines)] = new_line], Tail(parts), I)

\* grid_wrap as it would be if only the first word of the import were kept
grid_wrap_first_word(next_import, I) ==
    I.white_space \o Split(next_import, <<" ">>)[1]

grid_wrap(next_import, I) ==
    LET words == Split(next_import, <<" ">>)
    IN Join(grid_wrap_parts(<<I.white_space \o words[1]>>, Tail(words), I),
            I.line_separator)

\* lines 51-79: the while loop; imports is the caller's list, comments the
\* binding interface["comments"]
RECURSIVE grid_loop(_, _, _, _)
grid_loop(statement, imports, comments, I) ==
    IF imports = <<>> THEN [statement |-> statement, imports |-> imports]
    ELSE LET next_import == Head(imports)
             next_statement == add_to_line(comments,
                                   statement \o <<",", " ">> \o next_import,
                                   I.remove_comments, I.comment_prefix)
         IN IF LastLineLen(next_statement, I.line_separator) + 1 > I.line_length
            THEN grid_loop(add_to_line(comments, statement \o <<",">>,
                                       I.remove_comments, I.comment_prefix)
                               \o I.line_separator \o grid_wrap(next_import, I),
                           Tail(imports), <<>>, I)
            ELSE grid_loop(statement \o <<",", " ">> \o next_import,
                           Tail(imports), comments, I)

\* A strategy returns [ret, imports, comments]: the returned str and the
\* contents of the caller's two list objects when the call returns.
grid(I) ==
    IF I.imports = <<>> THEN [ret |-> <<>>, imports |-> I.imports, comments |-> I.comments]
    ELSE LET r == grid_loop(I.statement \o <<"(">> \o Head(I.imports),
                            Tail(I.imports), I.comments, I)
         IN [ret |-> r.statement
                       \o (IF I.include_trailing_comma THEN <<",">> ELSE <<>>)
                       \o <<")">>,
             imports |-> r.imports,
             comments |-> I.comments]

(***************************************************************************)
(* vertical                                                                *)
(***************************************************************************)
vertical(I) ==
    IF I.imports = <<>> THEN [ret |-> <<>>, imports |-> I.imports, comments |-> I.comments]
    ELSE LET first_import == add_to_line(I.comments, Head(I.imports) \o <<",">>,
                                         I.remove_comments, I.comment_prefix)
                                 \o I.line_separator \o I.white_space
             rest == Tail(I.imports)
         IN [ret |-> I.statement \o <<"(">> \o first_import
                       \o Join(rest, <<",">> \o I.line_separator \o I.white_space)
                       \o (IF I.include_trailing_comma THEN <<",">> ELSE <<>>)
                       \o <<")">>,
             imports |-> rest,
             comments |-> I.comments]

(***************************************************************************)
(* hanging_indent                                                          *)
(***************************************************************************)
\* lines 112-131: the while loop
RECURSIVE hanging_indent_loop(_, _, _, _)
hanging_indent_loop(statement, imports, comments, I) ==
    IF imports = <<>> THEN [statement |-> statement, imports |-> imports]
    ELSE LET next_import == Head(imports)
             next_statement == add_to_line(comments,
                                   statement \o <<",", " ">> \o next_import,
                                   I.remove_comments, I.comment_prefix)
         IN IF LastLineLen(next_statement, I.line_separator) + 3 > I.line_length
            THEN hanging_indent_loop(
                     add_to_line(comments, statement \o <<",", " ", "\\">>,
                                 I.remove_comments, I.comment_prefix)
                         \o I.line_separator \o I.indent \o next_import,
                     Tail(imports), <<>>, I)
            ELSE hanging_indent_loop(next_statement, Tail(imports), comments, I)

hanging_indent(I) ==
    IF I.imports = <<>> THEN [ret |-> <<>>, imports |-> I.imports, comments |-> I.comments]
    ELSE LET r == hanging_indent_loop(I.statement \o Head(I.imports),
                                      Tail(I.imports), I.comments, I)
         IN [ret |-> r.statement, imports |-> r.imports, comments |-> I.comments]

(***************************************************************************)
(* vertical_hanging_indent                                                 *)
(***************************************************************************)
vertical_hanging_indent(I) ==
    [ret |-> I.statement \o <<"(">>
               \o add_to_line(I.comments, <<>>, I.remove_comments, I.comment_prefix)
               \o I.line_separator \o I.indent
               \o Join(I.imports, <<",">> \o I.line_separator \o I.indent)
               \o (IF I.include_trailing_comma THEN <<",">> ELSE <<>>)
               \o I.line_separator \o <<")">>,
     imports |-> I.imports,
     comments |-> I.comments]

(***************************************************************************)
(* vertical_grid_common: the grid-packing primitive                        *)
(***************************************************************************)
\* lines 170-174: the projected length of the line with next_import on it
vertical_grid_projected(next_statement, more_imports, need_trailing_char, I) ==
    LastLineLen(next_statement, I.line_separator)
        + (IF more_imports \/ need_trailing_char THEN 1 ELSE 0)

\* lines 167-182: the while loop
RECURSIVE vertical_grid_loop(_, _, _, _)
vertical_grid_loop(statement, imports, need_trailing_char, I) ==
    IF imports = <<>> THEN [statement |-> statement, imports |-> imports]
    ELSE LET next_import == Head(imports)
             rest == Tail(imports)
             next_statement == statement \o <<",", " ">> \o next_import
         IN IF vertical_grid_projected(next_statement, rest # <<>>,
                                       need_trailing_char, I) > I.line_length
            THEN vertical_grid_loop(statement \o <<",">> \o I.line_separator
                                        \o I.indent \o next_import,
                                    rest, need_trailing_char, I)
            ELSE vertical_grid_loop(next_statement, rest, need_trailing_char, I)

vertical_grid_common(need_trailing_char, I) ==
    IF I.imports = <<>> THEN [ret |-> <<>>, imports |-> I.imports, comments |-> I.comments]
    ELSE LET r == vertical_grid_loop(
                      I.statement
                          \o add_to_line(I.comments, <<"(">>,
                                         I.remove_comments, I.comment_prefix)
                          \o I.line_separator \o I.indent \o Head(I.imports),
                      Tail(I.imports), need_trailing_char, I)
         IN [ret |-> r.statement
                       \o (IF I.include_trailing_comma THEN <<",">> ELSE <<>>),
             imports |-> r.imports,
             comments |-> I.comments]

vertical_grid(I) ==
    LET r == vertical_grid_common(TRUE, I)
    IN [r EXCEPT !.ret = @ \o <<")">>]

vertical_grid_grouped(I) ==
    LET r == vertical_grid_common(TRUE, I)
    IN [r EXCEPT !.ret = @ \o I.line_separator \o <<")">>]

vertical_grid_grouped_no_comma(I) ==
    LET r == vertical_grid_common(FALSE, I)
    IN [r EXCEPT !.ret = @ \o I.line_separator \o <<")">>]

(***************************************************************************)
(* noqa                                                                    *)
(***************************************************************************)
NOQA_marker == <<"N", "O", "Q", "A">>

\* "NOQA" in interface["comments"]
InList(x, list) == \E i \in 1..Len(list) : list[i] = x

\* noqa as it would be if the overflow branch never added the marker
noqa_without_marker(I) ==
    LET retval == I.statement \o Join(I.imports, <<",", " ">>)
        comment_str == Join(I.comments, <<" ">>)
        ret ==
            IF I.comments # <<>>
            THEN retval \o I.comment_prefix \o <<" ">> \o comment_str
            ELSE IF Len(retval) <= I.line_length
            THEN retval
            ELSE retval \o I.comment_prefix \o <<" ">> \o NOQA_marker
    IN [ret |-> ret, imports |-> I.imports, comments |-> I.comments]

noqa(I) ==
    LET retval == I.statement \o Join(I.imports, <<",", " ">>)
        comment_str == Join(I.comments, <<" ">>)
        with_comments == retval \o I.comment_prefix \o <<" ">> \o comment_str
        ret ==
            IF I.comments # <<>>
                  /\ Len(retval) + Len(I.comment_prefix) + 1 + Len(comment_str)
                         <= I.line_length
            THEN with_comments
            ELSE IF I.comments = <<>> /\ Len(retval) <= I.line_length
            THEN retval
            ELSE IF I.comments # <<>>
            THEN IF InList(NOQA_marker, I.comments)
                 THEN with_comments
                 ELSE retval \o I.comment_prefix \o <<" ">> \o NOQA_marker
                          \o <<" ">> \o comment_str
            ELSE retval \o I.comment_prefix \o <<" ">> \o NOQA_marker
    IN [ret |-> ret, imports |-> I.imports, comments |-> I.comments]

(***************************************************************************)
(* The registry: _wrap_mode, _wrap_modes, WrapModes, from_string           *)
(***************************************************************************)
LowerCase == <<"a", "b", "c", "d", "e", "f", "g", "h", "i", "j", "k", "l", "m",
               "n", "o", "p", "q", "r", "s", "t", "u", "v", "w", "x", "y", "z">>
UpperCase == <<"A", "B", "C", "D", "E", "F", "G", "H", "I", "J", "K", "L", "M",
               "N", "O", "P", "Q", "R", "S", "T", "U", "V", "W", "X", "Y", "Z">>

\* str.upper()
UpperChar(c) ==
    IF \E i \in 1..26 : LowerCase[i] = c
    THEN UpperCase[CHOOSE i \in 1..26 : LowerCase[i] = c]
    ELSE c
Upper(s) == [i \in 1..Len(s) |-> UpperChar(s[i])]

\* function.__name__ of the functions decorated with @_wrap_mode, in the
\* order they are defined
wrap_mode_functions ==
    <<<<"g", "r", "i", "d">>,
      <<"v", "e", "r", "t", "i", "c", "a", "l">>,
      <<"h", "a", "n", "g", "i", "n", "g", "_", "i", "n", "d", "e", "n", "t">>,
      <<"v", "e", "r", "t", "i", "c", "a", "l", "_", "h", "a", "n", "g", "i", "n", "g", "_", "i", "n", "d", "e", "n", "t">>,
      <<"v", "e", "r", "t", "i", "c", "a", "l", "_", "g", "r", "i", "d">>,
      <<"v", "e", "r", "t", "i", "c", "a", "l", "_", "g", "r", "i", "d", "_", "g", "r", "o", "u", "p", "e", "d">>,
      <<"v", "e", "r", "t", "i", "c", "a", "l", "_", "g", "r", "i", "d", "_", "g", "r", "o", "u", "p", "e", "d", "_", "n", "o", "_", "c", "o", "m", "m", "a">>,
      <<"n", "o", "q", "a">>>>

\* _wrap_modes.keys() once the module is loaded: insertion order
wrap_modes_keys == [i \in 1..Len(wrap_mode_functions) |-> Upper(wrap_mode_functions[i])]

\* WrapModes: member name -> value, {wrap_mode: index for index, wrap_mode in enumerate(keys)}
WrapModes == [i \in 1..Len(wrap_modes_keys) |-> [name |-> wrap_modes_keys[i], value |-> i - 1]]

\* The names, other than the member names, that the class WrapModes resolves
\* to an object that is true in a boolean context (CPython 3.11: the
\* attributes of the class, of Enum, of EnumType, of object and of type)
WrapModesClassAttributes ==
    {<<"_", "_", "b", "a", "s", "e", "_", "_">>,
     <<"_", "_", "b", "a", "s", "e", "s", "_", "_">>,
     <<"_", "_", "b", "a", "s", "i", "c", "s", "i", "z", "e", "_", "_">>,
     <<"_", "_", "b", "o", "o", "l", "_", "_">>,
     <<"_", "_", "c", "a", "l", "l", "_", "_">>,
     <<"_", "_", "c", "l", "a", "s", "s", "_", "_">>,
     <<"_", "_", "c", "o", "n", "t", "a", "i", "n", "s", "_", "_">>,
     <<"_", "_", "c", "o", "p", "y", "_", "_">>,
     <<"_", "_", "d", "e", "e", "p", "c", "o", "p", "y", "_", "_">>,
     <<"_", "_", "d", "e", "l", "a", "t", "t", "r", "_", "_">>,
     <<"_", "_", "d", "i", "c", "t", "_", "_">>,
     <<"_", "_", "d", "i", "c", "t", "o", "f", "f", "s", "e", "t", "_", "_">>,
     <<"_", "_", "d", "i", "r", "_", "_">>,
     <<"_", "_", "e", "q", "_", "_">>,
     <<"_", "_", "f", "l", "a", "g", "s", "_", "_">>,
     <<"_", "_", "f", "o", "r", "m", "a", "t", "_", "_">>,
     <<"_", "_", "g", "e", "_", "_">>,
     <<"_", "_", "g", "e", "t", "a", "t", "t", "r", "_", "_">>,
     <<"_", "_", "g", "e", "t", "a", "t", "t", "r", "i", "b", "u", "t", "e", "_", "_">>,
     <<"_", "_", "g", "e", "t", "i", "t", "e", "m", "_", "_">>,
     <<"_", "_", "g", "e", "t", "s", "t", "a", "t", "e", "_", "_">>,
     <<"_", "_", "g", "t", "_", "_">>,
     <<"_", "_", "h", "a", "s", "h", "_", "_">>,
     <<"_", "_", "i", "n", "i", "t", "_", "_">>,
     <<"_", "_", "i", "n", "i", "t", "_", "s", "u", "b", "c", "l", "a", "s", "s", "_", "_">>,
     <<"_", "_", "i", "n", "s", "t", "a", "n", "c", "e", "c", "h", "e", "c", "k", "_", "_">>,
     <<"_", "_", "i", "t", "e", "r", "_", "_">>,
     <<"_", "_", "l", "e", "_", "_">>,
     <<"_", "_", "l", "e", "n", "_", "_">>,
     <<"_", "_", "l", "t", "_", "_">>,
     <<"_", "_", "m", "e", "m", "b", "e", "r", "s", "_", "_">>,
     <<"_", "_", "m", "o", "d", "u", "l", "e", "_", "_">>,
     <<"_", "_", "m", "r", "o", "_", "_">>,
     <<"_", "_", "n", "a", "m", "e", "_", "_">>,
     <<"_", "_", "n", "e", "_", "_">>,
     <<"_", "_", "n", "e", "w", "_", "_">>,
     <<"_", "_", "o", "r", "_", "_">>,
     <<"_", "_", "p", "r", "e", "p", "a", "r", "e", "_", "_">>,
     <<"_", "_", "q", "u", "a", "l", "n", "a", "m", "e", "_", "_">>,
     <<"_", "_", "r", "e", "d", "u", "c", "e", "_", "_">>,
     <<"_", "_", "r", "e", "d", "u", "c", "e", "_", "e", "x", "_", "_">>,
     <<"_", "_", "r", "e", "p", "r", "_", "_">>,
     <<"_", "_", "r", "e", "v", "e", "r", "s", "e", "d", "_", "_">>,
     <<"_", "_", "r", "o", "r", "_", "_">>,
     <<"_", "_", "s", "e", "t", "a", "t", "t", "r", "_", "_">>,
     <<"_", "_", "s", "i", "z", "e", "o", "f", "_", "_">>,
     <<"_", "_", "s", "t", "r", "_", "_">>,
     <<"_", "_", "s", "u", "b", "c", "l", "a", "s", "s", "c", "h", "e", "c", "k", "_", "_">>,
     <<"_", "_", "s", "u", "b", "c", "l", "a", "s", "s", "e", "s", "_", "_">>,
     <<"_", "_", "s", "u", "b", "c", "l", "a", "s", "s", "h", "o", "o", "k", "_", "_">>,
     <<"_", "_", "w", "e", "a", "k", "r", "e", "f", "_", "_">>,
     <<"_", "_", "w", "e", "a", "k", "r", "e", "f", "o", "f", "f", "s", "e", "t", "_", "_">>,
     <<"_", "c", "h", "e", "c", "k", "_", "f", "o", "r", "_", "e", "x", "i", "s", "t", "i", "n", "g", "_", "m", "e", "m", "b", "e", "r", "s", "_">>,
     <<"_", "c", "o", "n", "v", "e", "r", "t", "_">>,
     <<"_", "c", "r", "e", "a", "t", "e", "_">>,
     <<"_", "f", "i", "n", "d", "_", "d", "a", "t", "a", "_", "r", "e", "p", "r", "_">>,
     <<"_", "f", "i", "n", "d", "_", "d", "a", "t", "a", "_", "t", "y", "p", "e", "_">>,
     <<"_", "f", "i", "n", "d", "_", "n", "e", "w", "_">>,
     <<"_", "g", "e", "n", "e", "r", "a", "t", "e", "_", "n", "e", "x", "t", "_", "v", "a", "l", "u", "e", "_">>,
     <<"_", "g", "e", "t", "_", "m", "i", "x", "i", "n", "s", "_">>,
     <<"_", "m", "e", "m", "b", "e", "r", "_", "m", "a", "p", "_">>,
     <<"_", "m", "e", "m", "b", "e", "r", "_", "n", "a", "m", "e", "s", "_">>,
     <<"_", "m", "e", "m", "b", "e", "r", "_", "t", "y", "p", "e", "_">>,
     <<"_", "m", "i", "s", "s", "i", "n", "g", "_">>,
     <<"_", "n", "e", "w", "_", "m", "e", "m", "b", "e", "r", "_">>,
     <<"_", "v", "a", "l", "u", "e", "2", "m", "e", "m", "b", "e", "r", "_", "m", "a", "p", "_">>,
     <<"m", "r", "o">>}

\* The names the class resolves to an object other than None that is false in
\* a boolean context: {}, 0, [], False
WrapModesFalsyClassAttributes ==
    {<<"_", "_", "a", "n", "n", "o", "t", "a", "t", "i", "o", "n", "s", "_", "_">>,
     <<"_", "_", "i", "t", "e", "m", "s", "i", "z", "e", "_", "_">>,
     <<"_", "u", "n", "h", "a", "s", "h", "a", "b", "l", "e", "_", "v", "a", "l", "u", "e", "s", "_">>,
     <<"_", "u", "s", "e", "_", "a", "r", "g", "s", "_">>}

\* What from_string can produce or raise: [kind, name, value]
None == [kind |-> "None", name |-> <<>>, value |-> 0 - 1]
ValueError == [kind |-> "ValueError", name |-> <<>>, value |-> 0 - 1]
Member(i) == [kind |-> "member", name |-> WrapModes[i].name, value |-> WrapModes[i].value]
IsMember(x) == \E i \in 1..Len(WrapModes) : x = Member(i)

\* A value handed to from_string is a str or an int
StrValue(s) == [type |-> "str", s |-> s, n |-> 0]
IntValue(n) == [type |-> "int", s |-> <<>>, n |-> n]
NoValue == [type |-> "none", s |-> <<>>, n |-> 0]

Digits == <<"0", "1", "2", "3", "4", "5", "6", "7", "8", "9">>

\* str(n) of a non-negative int
RECURSIVE NatToStr(_)
NatToStr(n) ==
    IF n < 10 THEN <<Digits[n + 1]>>
    ELSE NatToStr(n \div 10) \o <<Digits[(n % 10) + 1]>>

\* str(value)
PyStr(value) ==
    IF value.type = "str" THEN value.s
    ELSE IF value.n < 0 THEN <<"-">> \o NatToStr(0 - value.n)
    ELSE NatToStr(value.n)

\* The decimal digits int() reads (Unicode 14.0, category Nd), one row per
\* script, a row lists the digits of value 0 to 9
DecimalDigits ==
    <<<<"0", "1", "2", "3", "4", "5", "6", "7", "8", "9">>,
      <<"U+0660", "U+0661", "U+0662", "U+0663", "U+0664", "U+0665", "U+0666", "U+0667", "U+0668", "U+0669">>,
      <<"U+06F0", "U+06F1", "U+06F2", "U+06F3", "U+06F4", "U+06F5", "U+06F6", "U+06F7", "U+06F8", "U+06F9">>,
      <<"U+07C0", "U+07C1", "U+07C2", "U+07C3", "U+07C4", "U+07C5", "U+07C6", "U+07C7", "U+07C8", "U+07C9">>,
      <<"U+0966", "U+0967", "U+0968", "U+0969", "U+096A", "U+096B", "U+096C", "U+096D", "U+096E", "U+096F">>,
      <<"U+09E6", "U+09E7", "U+09E8", "U+09E9", "U+09EA", "U+09EB", "U+09EC", "U+09ED", "U+09EE", "U+09EF">>,
      <<"U+0A66", "U+0A67", "U+0A68", "U+0A69", "U+0A6A", "U+0A6B", "U+0A6C", "U+0A6D", "U+0A6E", "U+0A6F">>,
      <<"U+0AE6", "U+0AE7", "U+0AE8", "U+0AE9", "U+0AEA", "U+0AEB", "U+0AEC", "U+0AED", "U+0AEE", "U+0AEF">>,
      <<"U+0B66", "U+0B67", "U+0B68", "U+0B69", "U+0B6A", "U+0B6B", "U+0B6C", "U+0B6D", "U+0B6E", "U+0B6F">>,
      <<"U+0BE6", "U+0BE7", "U+0BE8", "U+0BE9", "U+0BEA", "U+0BEB", "U+0BEC", "U+0BED", "U+0BEE", "U+0BEF">>,
      <<"U+0C66", "U+0C67", "U+0C68", "U+0C69", "U+0C6A", "U+0C6B", "U+0C6C", "U+0C6D", "U+0C6E", "U+0C6F">>,
      <<"U+0CE6", "U+0CE7", "U+0CE8", "U+0CE9", "U+0CEA", "U+0CEB", "U+0CEC", "U+0CED", "U+0CEE", "U+0CEF">>,
      <<"U+0D66", "U+0D67", "U+0D68", "U+0D69", "U+0D6A", "U+0D6B", "U+0D6C", "U+0D6D", "U+0D6E", "U+0D6F">>,
      <<"U+0DE6", "U+0DE7", "U+0DE8", "U+0DE9", "U+0DEA", "U+0DEB", "U+0DEC", "U+0DED", "U+0DEE", "U+0DEF">>,
      <<"U+0E50", "U+0E51", "U+0E52", "U+0E53", "U+0E54", "U+0E55", "U+0E56", "U+0E57", "U+0E58", "U+0E59">>,
      <<"U+0ED0", "U+0ED1", "U+0ED2", "U+0ED3", "U+0ED4", "U+0ED5", "U+0ED6", "U+0ED7", "U+0ED8", "U+0ED9">>,
      <<"U+0F20", "U+0F21", "U+0F22", "U+0F23", "U+0F24", "U+0F25", "U+0F26", "U+0F27", "U+0F28", "U+0F29">>,
      <<"U+1040", "U+1041", "U+1042", "U+1043", "U+1044", "U+1045", "U+1046", "U+1047", "U+1048", "U+1049">>,
      <<"U+1090", "U+1091", "U+1092", "U+1093", "U+1094", "U+1095", "U+1096", "U+1097", "U+1098", "U+1099">>,
      <<"U+17E0", "U+17E1", "U+17E2", "U+17E3", "U+17E4", "U+17E5", "U+17E6", "U+17E7", "U+17E8", "U+17E9">>,
      <<"U+1810", "U+1811", "U+1812", "U+1813", "U+1814", "U+1815", "U+1816", "U+1817", "U+1818", "U+1819">>,
      <<"U+1946", "U+1947", "U+1948", "U+1949", "U+194A", "U+194B", "U+194C", "U+194D", "U+194E", "U+194F">>,
      <<"U+19D0", "U+19D1", "U+19D2", "U+19D3", "U+19D4", "U+19D5", "U+19D6", "U+19D7", "U+19D8", "U+19D9">>,
      <<"U+1A80", "U+1A81", "U+1A82", "U+1A83", "U+1A84", "U+1A85", "U+1A86", "U+1A87", "U+1A88", "U+1A89">>,
      <<"U+1A90", "U+1A91", "U+1A92", "U+1A93", "U+1A94", "U+1A95", "U+1A96", "U+1A97", "U+1A98", "U+1A99">>,
      <<"U+1B50", "U+1B51", "U+1B52", "U+1B53", "U+1B54", "U+1B55", "U+1B56", "U+1B57", "U+1B58", "U+1B59">>,
      <<"U+1BB0", "U+1BB1", "U+1BB2", "U+1BB3", "U+1BB4", "U+1BB5", "U+1BB6", "U+1BB7", "U+1BB8", "U+1BB9">>,
      <<"U+1C40", "U+1C41", "U+1C42", "U+1C43", "U+1C44", "U+1C45", "U+1C46", "U+1C47", "U+1C48", "U+1C49">>,
      <<"U+1C50", "U+1C51", "U+1C52", "U+1C53", "U+1C54", "U+1C55", "U+1C56", "U+1C57", "U+1C58", "U+1C59">>,
      <<"U+A620", "U+A621", "U+A622", "U+A623", "U+A624", "U+A625", "U+A626", "U+A627", "U+A628", "U+A629">>,
      <<"U+A8D0", "U+A8D1", "U+A8D2", "U+A8D3", "U+A8D4", "U+A8D5", "U+A8D6", "U+A8D7", "U+A8D8", "U+A8D9">>,
      <<"U+A900", "U+A901", "U+A902", "U+A903", "U+A904", "U+A905", "U+A906", "U+A907", "U+A908", "U+A909">>,
      <<"U+A9D0", "U+A9D1", "U+A9D2", "U+A9D3", "U+A9D4", "U+A9D5", "U+A9D6", "U+A9D7", "U+A9D8", "U+A9D9">>,
      <<"U+A9F0", "U+A9F1", "U+A9F2", "U+A9F3", "U+A9F4", "U+A9F5", "U+A9F6", "U+A9F7", "U+A9F8", "U+A9F9">>,
      <<"U+AA50", "U+AA51", "U+AA52", "U+AA53", "U+AA54", "U+AA55", "U+AA56", "U+AA57", "U+AA58", "U+AA59">>,
      <<"U+ABF0", "U+ABF1", "U+ABF2", "U+ABF3", "U+ABF4", "U+ABF5", "U+ABF6", "U+ABF7", "U+ABF8", "U+ABF9">>,
      <<"U+FF10", "U+FF11", "U+FF12", "U+FF13", "U+FF14", "U+FF15", "U+FF16", "U+FF17", "U+FF18", "U+FF19">>,
      <<"U+104A0", "U+104A1", "U+104A2", "U+104A3", "U+104A4", "U+104A5", "U+104A6", "U+104A7", "U+104A8", "U+104A9">>,
      <<"U+10D30", "U+10D31", "U+10D32", "U+10D33", "U+10D34", "U+10D35", "U+10D36", "U+10D37", "U+10D38", "U+10D39">>,
      <<"U+11066", "U+11067", "U+11068", "U+11069", "U+1106A", "U+1106B", "U+1106C", "U+1106D", "U+1106E", "U+1106F">>,
      <<"U+110F0", "U+110F1", "U+110F2", "U+110F3", "U+110F4", "U+110F5", "U+110F6", "U+110F7", "U+110F8", "U+110F9">>,
      <<"U+11136", "U+11137", "U+11138", "U+11139", "U+1113A", "U+1113B", "U+1113C", "U+1113D", "U+1113E", "U+1113F">>,
      <<"U+111D0", "U+111D1", "U+111D2", "U+111D3", "U+111D4", "U+111D5", "U+111D6", "U+111D7", "U+111D8", "U+111D9">>,
      <<"U+112F0", "U+112F1", "U+112F2", "U+112F3", "U+112F4", "U+112F5", "U+112F6", "U+112F7", "U+112F8", "U+112F9">>,
      <<"U+11450", "U+11451", "U+11452", "U+11453", "U+11454", "U+11455", "U+11456", "U+11457", "U+11458", "U+11459">>,
      <<"U+114D0", "U+114D1", "U+114D2", "U+114D3", "U+114D4", "U+114D5", "U+114D6", "U+114D7", "U+114D8", "U+114D9">>,
      <<"U+11650", "U+11651", "U+11652", "U+11653", "U+11654", "U+11655", "U+11656", "U+11657", "U+11658", "U+11659">>,
      <<"U+116C0", "U+116C1", "U+116C2", "U+116C3", "U+116C4", "U+116C5", "U+116C6", "U+116C7", "U+116C8", "U+116C9">>,
      <<"U+11730", "U+11731", "U+11732", "U+11733", "U+11734", "U+11735", "U+11736", "U+11737", "U+11738", "U+11739">>,
      <<"U+118E0", "U+118E1", "U+118E2", "U+118E3", "U+118E4", "U+118E5", "U+118E6", "U+118E7", "U+118E8", "U+118E9">>,
      <<"U+11950", "U+11951", "U+11952", "U+11953", "U+11954", "U+11955", "U+11956", "U+11957", "U+11958", "U+11959">>,
      <<"U+11C50", "U+11C51", "U+11C52", "U+11C53", "U+11C54", "U+11C55", "U+11C56", "U+11C57", "U+11C58", "U+11C59">>,
      <<"U+11D50", "U+11D51", "U+11D52", "U+11D53", "U+11D54", "U+11D55", "U+11D56", "U+11D57", "U+11D58", "U+11D59">>,
      <<"U+11DA0", "U+11DA1", "U+11DA2", "U+11DA3", "U+11DA4", "U+11DA5", "U+11DA6", "U+11DA7", "U+11DA8", "U+11DA9">>,
      <<"U+16A60", "U+16A61", "U+16A62", "U+16A63", "U+16A64", "U+16A65", "U+16A66", "U+16A67", "U+16A68", "U+16A69">>,
      <<"U+16AC0", "U+16AC1", "U+16AC2", "U+16AC3", "U+16AC4", "U+16AC5", "U+16AC6", "U+16AC7", "U+16AC8", "U+16AC9">>,
      <<"U+16B50", "U+16B51", "U+16B52", "U+16B53", "U+16B54", "U+16B55", "U+16B56", "U+16B57", "U+16B58", "U+16B59">>,
      <<"U+1D7CE", "U+1D7CF", "U+1D7D0", "U+1D7D1", "U+1D7D2", "U+1D7D3", "U+1D7D4", "U+1D7D5", "U+1D7D6", "U+1D7D7">>,
      <<"U+1D7D8", "U+1D7D9", "U+1D7DA", "U+1D7DB", "U+1D7DC", "U+1D7DD", "U+1D7DE", "U+1D7DF", "U+1D7E0", "U+1D7E1">>,
      <<"U+1D7E2", "U+1D7E3", "U+1D7E4", "U+1D7E5", "U+1D7E6", "U+1D7E7", "U+1D7E8", "U+1D7E9", "U+1D7EA", "U+1D7EB">>,
      <<"U+1D7EC", "U+1D7ED", "U+1D7EE", "U+1D7EF", "U+1D7F0", "U+1D7F1", "U+1D7F2", "U+1D7F3", "U+1D7F4", "U+1D7F5">>,
      <<"U+1D7F6", "U+1D7F7", "U+1D7F8", "U+1D7F9", "U+1D7FA", "U+1D7FB", "U+1D7FC", "U+1D7FD", "U+1D7FE", "U+1D7FF">>,
      <<"U+1E140", "U+1E141", "U+1E142", "U+1E143", "U+1E144", "U+1E145", "U+1E146", "U+1E147", "U+1E148", "U+1E149">>,
      <<"U+1E2F0", "U+1E2F1", "U+1E2F2", "U+1E2F3", "U+1E2F4", "U+1E2F5", "U+1E2F6", "U+1E2F7", "U+1E2F8", "U+1E2F9">>,
      <<"U+1E950", "U+1E951", "U+1E952", "U+1E953", "U+1E954", "U+1E955", "U+1E956", "U+1E957", "U+1E958", "U+1E959">>,
      <<"U+1FBF0", "U+1FBF1", "U+1FBF2", "U+1FBF3", "U+1FBF4", "U+1FBF5", "U+1FBF6", "U+1FBF7", "U+1FBF8", "U+1FBF9">>>>

\* The characters int() strips from both ends of a str
IntWhitespace ==
    {"\t",
     "\n",
     "U+000B",
     "\f",
     "\r",
     " ",
     "U+0085",
     "U+00A0",
     "U+1680",
     "U+2000",
     "U+2001",
     "U+2002",
     "U+2003",
     "U+2004",
     "U+2005",
     "U+2006",
     "U+2007",
     "U+2008",
     "U+2009",
     "U+200A",
     "U+2028",
     "U+2029",
     "U+202F",
     "U+205F",
     "U+3000"}

IsDigit(c) == \E r \in 1..Len(DecimalDigits) : \E i \in 1..10 : DecimalDigits[r][i] = c
DigitValue(c) ==
    (CHOOSE i \in 1..10 : \E r \in 1..Len(DecimalDigits) : DecimalDigits[r][i] = c) - 1

RECURSIVE DigitsToNat(_, _)
DigitsToNat(s, acc) ==
    IF s = <<>> THEN acc
    ELSE IF Head(s) = "_" THEN DigitsToNat(Tail(s), acc)
    ELSE DigitsToNat(Tail(s), 10 * acc + DigitValue(Head(s)))

\* str.strip() as int() applies it
RECURSIVE StripLeft(_)
StripLeft(s) ==
    IF s # <<>> /\ Head(s) \in IntWhitespace THEN StripLeft(Tail(s)) ELSE s

RECURSIVE StripRightSpace(_)
StripRightSpace(s) ==
    IF s # <<>> /\ s[Len(s)] \in IntWhitespace
    THEN StripRightSpace(SubSeq(s, 1, Len(s) - 1)) ELSE s

\* the digits of an int literal: decimal digits, single underscores allowed
\* between two digits only
IsIntBody(body) ==
    /\ body # <<>>
    /\ \A i \in 1..Len(body) : IsDigit(body[i]) \/ body[i] = "_"
    /\ IsDigit(body[1])
    /\ IsDigit(body[Len(body)])
    /\ \A i \in 1..(Len(body) - 1) : ~(body[i] = "_" /\ body[i + 1] = "_")

\* int(value): an int is itself; a str is read in base 10: surrounding
\* whitespace stripped, an optional sign, then the digits; anything else
\* raises ValueError
PyInt(value) ==
    IF value.type = "int" THEN [kind |-> "int", name |-> <<>>, value |-> value.n]
    ELSE LET s == StripRightSpace(StripLeft(value.s))
             signed == s # <<>> /\ Head(s) \in {"-", "+"}
             body == IF signed THEN Tail(s) ELSE s
         IN IF ~IsIntBody(body)
            THEN ValueError
            ELSE [kind |-> "int", name |-> <<>>,
                  value |-> IF signed /\ Head(s) = "-"
                        THEN 0 - DigitsToNat(body, 0) ELSE DigitsToNat(body, 0)]

\* getattr(WrapModes, name, None)
getattr_WrapModes(name) ==
    IF \E i \in 1..Len(WrapModes) : WrapModes[i].name = name
    THEN Member(CHOOSE i \in 1..Len(WrapModes) : WrapModes[i].name = name)
    ELSE IF name \in WrapModesClassAttributes
    THEN [kind |-> "attribute", name |-> name, value |-> 0 - 1]
    ELSE IF name \in WrapModesFalsyClassAttributes
    THEN [kind |-> "falsy attribute", name |-> name, value |-> 0 - 1]
    ELSE None

\* WrapModes(n): lookup by value
WrapModes_by_value(n) ==
    IF \E i \in 1..Len(WrapModes) : WrapModes[i].value = n
    THEN Member(CHOOSE i \in 1..Len(WrapModes) : WrapModes[i].value = n)
    ELSE ValueError

\* bool(x) of what getattr returns
Truthy(x) == x.kind \in {"member", "attribute"}

\* a or b
from_string(value) ==
    LET by_name == getattr_WrapModes(PyStr(value))
    IN IF Truthy(by_name) THEN by_name
       ELSE LET n == PyInt(value)
            IN IF n = ValueError THEN n ELSE WrapModes_by_value(n.value)

(***************************************************************************)
(* Inputs.                                                                 *)
(***************************************************************************)
ImportTokens == {<<"a">>, <<"b", " ", "c">>}
CommentTokens == {<<"x">>, <<"y">>, NOQA_marker}
Statements == {<<"f", " ">>}

SeqsUpTo(S, n) == UNION {[1..k -> S] : k \in 0..n}
NoDup(s) == \A i, j \in 1..Len(s) : i # j => s[i] # s[j]

ImportLists == SeqsUpTo(ImportTokens, MaxImports)
\* the comments of one statement are distinct tokens
CommentLists == {c \in SeqsUpTo(CommentTokens, MaxComments) : NoDup(c)}

Interfaces ==
    [statement : Statements,
     imports : ImportLists,
     white_space : {<<" ">>},
     indent : {<<" ", " ">>},
     line_length : 0..MaxLineLength,
     comments : CommentLists,
     line_separator : {<<"\n">>},
     comment_prefix : {<<" ", "#">>},
     include_trailing_comma : BOOLEAN,
     remove_comments : BOOLEAN]

\* strs that int() reads beyond sign and ASCII digits, strs it rejects, and
\* names the class does not resolve or resolves to None
OtherLookupStrings ==
    {<<>>,
     <<"G", "R", "I", "D", "S">>,
     <<" ", "3">>,
     <<"3", " ">>,
     <<"\t", "5", "\n">>,
     <<"0", "_", "3">>,
     <<"+", "3">>,
     <<"-", "0">>,
     <<"0", "0">>,
     <<"1", "_", "0">>,
     <<"U+0663">>,
     <<"U+0663", "_", "U+0663">>,
     <<"U+3000", "3", "U+00A0">>,
     <<"_", "3">>,
     <<"3", "_">>,
     <<"1", "_", "_", "0">>,
     <<"+", " ", "3">>,
     <<"+", "+", "3">>,
     <<"3", " ", "4">>,
     <<" ">>,
     <<"+">>,
     <<"0", "x", "3">>,
     <<"3", ".", "0">>,
     <<"U+001C", "3">>,
     <<"n", "a", "m", "e">>,
     <<"v", "a", "l", "u", "e">>,
     <<"_", "_", "d", "o", "c", "_", "_">>,
     <<"_", "_", "t", "e", "x", "t", "_", "s", "i", "g", "n", "a", "t", "u", "r", "e", "_", "_">>,
     <<"_", "_", "s", "l", "o", "t", "s", "_", "_">>}

\* Values handed to from_string: ordinals in and out of range, as int and as
\* str, the member names, their lower-case spellings, class attribute names
LookupValues ==
    {IntValue(n) : n \in (0 - 2)..MaxOrdinal}
        \cup {StrValue(PyStr(IntValue(n))) : n \in (0 - 2)..MaxOrdinal}
        \cup {StrValue(wrap_modes_keys[i]) : i \in 1..Len(wrap_modes_keys)}
        \cup {StrValue(wrap_mode_functions[i]) : i \in 1..Len(wrap_mode_functions)}
        \cup {StrValue(a) : a \in WrapModesClassAttributes \cup WrapModesFalsyClassAttributes}
        \cup {StrValue(s) : s \in OtherLookupStrings}

NoInterface ==
    [statement |-> <<>>, imports |-> <<>>, white_space |-> <<>>, indent |-> <<>>,
     line_length |-> 0, comments |-> <<>>, line_separator |-> <<"\n">>,
     comment_prefix |-> <<>>, include_trailing_comma |-> FALSE,
     remove_comments |-> FALSE]

VARIABLES pc, mode, args, imports, comments, result, value, found

vars == <<pc, mode, args, imports, comments, result, value, found>>

\* Either a strategy is about to be called with args, or from_string with value
Init ==
    /\ mode = "NONE"
    /\ result = <<>>
    /\ found = None
    /\ \/ /\ pc = "ready"
          /\ args \in Interfaces
          /\ value = NoValue
       \/ /\ pc = "lookup"
          /\ args = NoInterface
          /\ value \in LookupValues
    /\ imports = args.imports
    /\ comments = args.comments

Call(name, r) ==
    /\ pc = "ready"
    /\ pc' = "done"
    /\ mode' = name
    /\ result' = r.ret
    /\ imports' = r.imports
    /\ comments' = r.comments
    /\ UNCHANGED <<args, value, found>>

CallGrid == Call("GRID", grid(args))
CallVertical == Call("VERTICAL", vertical(args))
CallHangingIndent == Call("HANGING_INDENT", hanging_indent(args))
CallVerticalHangingIndent == Call("VERTICAL_HANGING_INDENT", vertical_hanging_indent(args))
CallVerticalGrid == Call("VERTICAL_GRID", vertical_grid(args))
CallVerticalGridGrouped == Call("VERTICAL_GRID_GROUPED", vertical_grid_grouped(args))
CallVerticalGridGroupedNoComma ==
    Call("VERTICAL_GRID_GROUPED_NO_COMMA", vertical_grid_grouped_no_comma(args))
CallNoqa == Call("NOQA", noqa(args))

\* vertical_grid_common called on its own: it is a function of the module,
\* not a registered wrap mode
CallVerticalGridCommon ==
    \E need_trailing_char \in BOOLEAN :
        Call("VERTICAL_GRID_COMMON", vertical_grid_common(need_trailing_char, args))

FromString ==
    /\ pc = "lookup"
    /\ pc' = "done"
    /\ found' = from_string(value)
    /\ UNCHANGED <<mode, args, imports, comments, result, value>>

Next ==
    \/ CallGrid
    \/ CallVertical
    \/ CallHangingIndent
    \/ CallVerticalHangingIndent
    \/ CallVerticalGrid
    \/ CallVerticalGridGrouped
    \/ CallVerticalGridGroupedNoComma
    \/ CallNoqa
    \/ CallVerticalGridCommon
    \/ FromString

Spec == Init /\ [][Next]_vars

(***************************************************************************)
(* Vocabulary of the properties.                                           *)
(***************************************************************************)
Contains(s, sub) ==
    \E i \in 1..(Len(s) - Len(sub) + 1) : SubSeq(s, i, i + Len(sub) - 1) = sub

CountSub(s, sub) ==
    Cardinality({i \in 1..(Len(s) - Len(sub) + 1) : SubSeq(s, i, i + Len(sub) - 1) = sub})

EndsWith(s, suffix) ==
    Len(suffix) <= Len(s) /\ SubSeq(s, Len(s) - Len(suffix) + 1, Len(s)) = suffix

\* the physical lines of the returned string
Lines == Split(result, args.line_separator)

\* the words of a text: its maximal runs without a space
Words(s) == SelectSeq(Split(s, <<" ">>), LAMBDA w : w # <<>>)

\* s up to its first occurrence of sub
Before(s, sub) ==
    IF Contains(s, sub)
    THEN SubSeq(s, 1, (CHOOSE i \in 1..Len(s) :
                          /\ SubSeq(s, i, i + Len(sub) - 1) = sub
                          /\ \A j \in 1..(i - 1) : SubSeq(s, j, j + Len(sub) - 1) # sub) - 1)
    ELSE s

\* a registered wrap mode has been called and has returned
Done == pc = "done" /\ mode \notin {"NONE", "VERTICAL_GRID_COMMON"}
GridPackingModes ==
    {"VERTICAL_GRID", "VERTICAL_GRID_GROUPED", "VERTICAL_GRID_GROUPED_NO_COMMA"}
ParenthesisModes ==
    {"GRID", "VERTICAL", "VERTICAL_HANGING_INDENT"} \cup GridPackingModes

\* two imports share the line: the separator ", " stands between them
HoldsSeveralImports(line) == Contains(line, <<",", " ">>)

\* a line that is one token: no space inside it (its indentation aside)
SingleToken(line) == Len(Words(line)) <= 1

NonEmptyCall == Done /\ args.imports # <<>>

(***************************************************************************)
(* C1                                                                      *)
(***************************************************************************)
\* C1 as stated: in every mode but noqa, for a non-empty import list, every
\* physical line of the result is at most line_length long or is a single
\* token without an internal space.
\* grid reserves one column behind a kept import and then appends "," and
\* ")": with line_length 10 it returns "f (a, b c,)", 11 columns, where
\* "f (a," / " b c,)" fits.
C1_EveryLineFits ==
    NonEmptyCall /\ mode # "NOQA"
        => \A k \in 1..Len(Lines) :
               Len(Lines[k]) <= args.line_length \/ SingleToken(Lines[k])

(***************************************************************************)
(* C2                                                                      *)
(***************************************************************************)
\* The import tokens read back from a result: drop the statement prefix and
\* the trailing comment of each line, turn the line breaks and indentation
\* into spaces, drop the parentheses, cut at the commas.
RecoveredImports ==
    LET body == IF StartsWith(result, args.statement)
                THEN Drop(result, Len(args.statement)) ELSE result
        lines == Split(body, args.line_separator)
        code == [k \in 1..Len(lines) |-> Before(lines[k], args.comment_prefix)]
        flat == SelectSeq(Join(code, <<" ">>), LAMBDA c : c \notin {"(", ")"})
        pieces == Split(flat, <<",">>)
        tokens == [k \in 1..Len(pieces) |-> Join(Words(pieces[k]), <<" ">>)]
    IN SelectSeq(tokens, LAMBDA t : t # <<>>)

\* C2: in grid and the three grid-packing modes the import tokens read back
\* from the result are the original import list, in order, nothing lost,
\* nothing added.
C2_ImportsRecovered ==
    Done /\ mode \in {"GRID"} \cup GridPackingModes
        => RecoveredImports = args.imports

\* grid word-wrapped an import at its internal space, on a line of its own
C2_Witness ==
    /\ Done
    /\ mode = "GRID"
    /\ Len(args.imports) = 3
    /\ args.imports[2] = <<"b", " ", "c">>
    /\ Len(Lines) >= 4
    /\ Lines[2] = args.white_space \o <<"b">>

(***************************************************************************)
(* C3                                                                      *)
(***************************************************************************)
\* C3: with remove_comments set, the result of any mode holds neither the
\* comment prefix nor the text of any comment.
C3_NoCommentWhenRemoved ==
    Done /\ args.remove_comments
        => /\ ~Contains(result, args.comment_prefix)
           /\ \A i \in 1..Len(args.comments) : ~Contains(result, args.comments[i])

(***************************************************************************)
(* C4                                                                      *)
(***************************************************************************)
\* C4: with comments to render and remove_comments unset, the comment is on
\* exactly one physical line of the result, once: never missing, never twice.
C4_CommentExactlyOnce ==
    NonEmptyCall /\ args.comments # <<>> /\ ~args.remove_comments
        => /\ CountSub(result, args.comment_prefix) = 1
           /\ \A i \in 1..Len(args.comments) : CountSub(result, args.comments[i]) = 1

(***************************************************************************)
(* C5                                                                      *)
(***************************************************************************)
\* C5: when a strategy returns, the caller's import list and comment list
\* hold what they held before the call.
C5_CallerListsUntouched ==
    Done => imports = args.imports /\ comments = args.comments

(***************************************************************************)
(* C6                                                                      *)
(***************************************************************************)
\* C6: with an empty import list every mode but noqa returns the empty string.
C6_EmptyImportsEmptyResult ==
    Done /\ mode # "NOQA" /\ args.imports = <<>> => result = <<>>

(***************************************************************************)
(* C7                                                                      *)
(***************************************************************************)
\* the result without its final ")" and the line break and indentation
\* in front of it
RECURSIVE StripRight(_, _)
StripRight(s, chars) ==
    IF s # <<>> /\ Last(s) \in chars THEN StripRight(SubSeq(s, 1, Len(s) - 1), chars) ELSE s

BeforeClosing ==
    LET open == IF result # <<>> /\ Last(result) = ")"
                THEN SubSeq(result, 1, Len(result) - 1) ELSE result
    IN StripRight(open, {" ", "\n"})

LastImportWord == Last(Words(Last(args.imports)))

\* C7: in the modes that close with ")", for a non-empty import list, the
\* last import is followed by "," and then the closing when
\* include_trailing_comma is set, and by the closing alone when it is not.
C7_TrailingComma ==
    NonEmptyCall /\ mode \in ParenthesisModes
        => /\ Last(result) = ")"
           /\ IF args.include_trailing_comma
              THEN EndsWith(BeforeClosing, LastImportWord \o <<",">>)
              ELSE EndsWith(BeforeClosing, LastImportWord)

(***************************************************************************)
(* C8                                                                      *)
(***************************************************************************)
NoqaJoined == args.statement \o Join(args.imports, <<",", " ">>)

NoqaOverflowWithComments ==
    /\ Done
    /\ mode = "NOQA"
    /\ args.comments # <<>>
    /\ ~InList(NOQA_marker, args.comments)
    /\ Len(NoqaJoined) + Len(args.comment_prefix) + 1
           + Len(Join(args.comments, <<" ">>)) > args.line_length

\* C8: noqa, with comments that hold no "NOQA" and push the line over
\* line_length, keeps statement + ", ".join(imports) as the prefix of the
\* result and puts exactly one NOQA token after the comment prefix, in front
\* of the comments.
C8_NoqaMarkerOnce ==
    NoqaOverflowWithComments
        => /\ StartsWith(result, NoqaJoined \o args.comment_prefix)
           /\ Words(Drop(result, Len(NoqaJoined) + Len(args.comment_prefix)))
                  = <<NOQA_marker>> \o args.comments
           /\ CountSub(result, NOQA_marker) = 1

\* two comments overflow a line that the imports alone would fit
C8_Witness ==
    /\ NoqaOverflowWithComments
    /\ Len(args.comments) = 2
    /\ Len(args.imports) >= 2
    /\ Len(NoqaJoined) <= args.line_length

(***************************************************************************)
(* C9                                                                      *)
(***************************************************************************)
\* the member a value names: by its exact name, or by its ordinal, given as
\* an int or as a str that int() reads
NamesMember(v, i) ==
    \/ v = StrValue(WrapModes[i].name)
    \/ PyInt(v) # ValueError /\ PyInt(v).value = i - 1

\* C9: from_string returns member i for its exact name and for its ordinal,
\* and raises for every other value; it returns nothing but a member.
C9_FromString ==
    pc = "done" /\ mode = "NONE"
        => /\ \A i \in 1..Len(WrapModes) : NamesMember(value, i) => found = Member(i)
           /\ (\A i \in 1..Len(WrapModes) : ~NamesMember(value, i)) => found = ValueError
           /\ found # ValueError => IsMember(found)

(***************************************************************************)
(* C10                                                                     *)
(***************************************************************************)
\* C10: in vertical_grid, a line on which the primitive kept an import (the
\* import follows ", " on it) is at most line_length long in the result,
\* counted with the comma or the closing that follows the import.
C10_ReservedColumnSuffices ==
    Done /\ mode = "VERTICAL_GRID"
        => \A k \in 2..Len(Lines) :
               HoldsSeveralImports(Lines[k]) => Len(Lines[k]) <= args.line_length
====
